---- MODULE Spec2Model ----
(***************************************************************************)
(* Object-level permission predicates of backend/api/permissions.py,       *)
(* evaluated against the ClubMembership / ClubRole rows and the            *)
(* is_superuser flag of the requesting user.                               *)
(*                                                                         *)
(* State: the is_superuser flag of every user, the ClubMembership table    *)
(* and the outcome of the permission check of the request being served.    *)
(***************************************************************************)
EXTENDS Naturals, FiniteSets

VARIABLES is_superuser, memberships, checked

vars == <<is_superuser, memberships, checked>>

(* ------------------------------ bounds --------------------------------- *)

NumUsers == 2

NumClubs == 2

MaxMemberships == 2

(* ------------------------- relational universe ------------------------- *)

Users == 1..NumUsers

Clubs == 1..NumClubs

\* values of ClubRole.privilege
PRIVILEGES == {"REP", "MEM"}

\* rest_framework.permissions.SAFE_METHODS
SAFE_METHODS == {"GET", "HEAD", "OPTIONS"}

\* the HTTP methods a view dispatches
METHODS == SAFE_METHODS \cup {"POST", "PUT", "PATCH", "DELETE"}

\* ClubRole rows: a role belongs to one club and carries one privilege
ClubRole == [club : Clubs, privilege : PRIVILEGES]

\* every row the ClubMembership table can hold: a user in a role
ClubMembership == [user : Users, club_role : ClubRole]

\* request.user and request.method
Requests == [user : Users, method : METHODS]

\* the objects a view hands to has_object_permission, by the attributes the
\* predicates read
Posts == [kind : {"Post"}, channel : [club : Clubs]]

Conversations == [kind : {"Conversation"}, channel : [club : Clubs]]

UserObjs == [kind : {"User"}, id : Users]

ClubObjs == [kind : {"Club"}, id : Clubs]

ClubRoleObjs == [kind : {"ClubRole"}, club : Clubs, privilege : PRIVILEGES]

Feedbacks == [kind : {"Feedback"}, author : Users, club : Clubs]

FeedbackReplies == [kind : {"FeedbackReply"}, parent : Feedbacks]

Projects == [kind : {"Project"}, clubs : SUBSET Clubs]

NoCheck == [perm |-> "none"]

(* --------------------------- permissions.py ---------------------------- *)

is_secretary(user_obj) == is_superuser[user_obj]

\* variant: the privilege filter is left out
IsRepOrReadOnlyPost_AnyPrivilege(request, obj) ==
    IF request.method \in SAFE_METHODS
    THEN TRUE
    ELSE \E m \in memberships :
            /\ m.user = request.user
            /\ m.club_role.club = obj.channel.club

IsRepOrReadOnlyPost(request, obj) ==
    IF request.method \in SAFE_METHODS
    THEN TRUE
    ELSE \E m \in memberships :
            /\ m.user = request.user
            /\ m.club_role.club = obj.channel.club
            /\ m.club_role.privilege = "REP"

\* variant: a secretary may read as well
IsClubMemberReadOnlyConversation_SecyReads(request, obj) ==
    IF request.method \in SAFE_METHODS
    THEN \/ is_secretary(request.user)
         \/ \E m \in memberships :
               /\ m.user = request.user
               /\ m.club_role.club = obj.channel.club
    ELSE FALSE

IsClubMemberReadOnlyConversation(request, obj) ==
    IF request.method \in SAFE_METHODS
    THEN \E m \in memberships :
            /\ m.user = request.user
            /\ m.club_role.club = obj.channel.club
    ELSE FALSE

\* variant: the safe-method branch is left out
IsSelfOrReadOnlyUser_SelfOnly(request, obj) ==
    obj.id = request.user

IsSelfOrReadOnlyUser(request, obj) ==
    IF request.method \in SAFE_METHODS
    THEN TRUE
    ELSE obj.id = request.user

\* variant: DELETE is not told apart from the other unsafe methods
IsSecyOrRepOrReadOnlyClub_NoDeleteCase(request, obj) ==
    IF request.method \in SAFE_METHODS
    THEN TRUE
    ELSE \/ is_secretary(request.user)
         \/ \E m \in memberships :
               /\ m.user = request.user
               /\ m.club_role.club = obj.id
               /\ m.club_role.privilege = "REP"

IsSecyOrRepOrReadOnlyClub(request, obj) ==
    IF request.method \in SAFE_METHODS
    THEN TRUE
    ELSE IF request.method = "DELETE"
    THEN is_secretary(request.user)
    ELSE \/ is_secretary(request.user)
         \/ \E m \in memberships :
               /\ m.user = request.user
               /\ m.club_role.club = obj.id
               /\ m.club_role.privilege = "REP"

\* variant: safe methods are open, as in the ReadOnly classes
IsRepClubRole_ReadOpen(request, obj) ==
    IF request.method \in SAFE_METHODS
    THEN TRUE
    ELSE \E m \in memberships :
            /\ m.user = request.user
            /\ m.club_role.club = obj.club
            /\ m.club_role.privilege = "REP"

IsRepClubRole(request, obj) ==
    \E m \in memberships :
        /\ m.user = request.user
        /\ m.club_role.club = obj.club
        /\ m.club_role.privilege = "REP"

\* variant: the privilege filter is left out
IsRepClubMembership_AnyPrivilege(request, obj) ==
    \E m \in memberships :
        /\ m.user = request.user
        /\ m.club_role.club = obj.club_role.club

IsRepClubMembership(request, obj) ==
    \E m \in memberships :
        /\ m.user = request.user
        /\ m.club_role.club = obj.club_role.club
        /\ m.club_role.privilege = "REP"

IsSecyOrRepOrAuthorFeedback(request, obj) ==
    IF request.method \in SAFE_METHODS
    THEN \/ obj.author = request.user
         \/ is_secretary(request.user)
         \/ \E m \in memberships :
               /\ m.user = request.user
               /\ m.club_role.club = obj.club
               /\ m.club_role.privilege = "REP"
    ELSE FALSE

\* variant: the club filter is left out
IsSecyOrRepOrAuthorFeedbackReply_AnyClub(request, obj) ==
    IF request.method \in SAFE_METHODS
    THEN \/ obj.parent.author = request.user
         \/ is_secretary(request.user)
         \/ \E m \in memberships :
               /\ m.user = request.user
               /\ m.club_role.privilege = "REP"
    ELSE FALSE

IsSecyOrRepOrAuthorFeedbackReply(request, obj) ==
    IF request.method \in SAFE_METHODS
    THEN \/ obj.parent.author = request.user
         \/ is_secretary(request.user)
         \/ \E m \in memberships :
               /\ m.user = request.user
               /\ m.club_role.club = obj.parent.club
               /\ m.club_role.privilege = "REP"
    ELSE FALSE

\* variant: a secretary may write as well
IsRepOrSecyAndClubMemberReadOnlyProject_SecyWrites(request, obj) ==
    IF request.method \in SAFE_METHODS
    THEN \/ is_secretary(request.user)
         \/ \E m \in memberships :
               /\ m.user = request.user
               /\ m.club_role.club \in obj.clubs
    ELSE \/ is_secretary(request.user)
         \/ \E m \in memberships :
               /\ m.user = request.user
               /\ m.club_role.club \in obj.clubs
               /\ m.club_role.privilege = "REP"

IsRepOrSecyAndClubMemberReadOnlyProject(request, obj) ==
    IF request.method \in SAFE_METHODS
    THEN \/ is_secretary(request.user)
         \/ \E m \in memberships :
               /\ m.user = request.user
               /\ m.club_role.club \in obj.clubs
    ELSE \E m \in memberships :
            /\ m.user = request.user
            /\ m.club_role.club \in obj.clubs
            /\ m.club_role.privilege = "REP"

(* ------------------------------ actions -------------------------------- *)

Init ==
    /\ is_superuser = [u \in Users |-> FALSE]
    /\ memberships = {}
    /\ checked = NoCheck

\* a ClubMembership row is created
GrantMembership ==
    /\ checked = NoCheck
    /\ \E row \in ClubMembership \ memberships :
           /\ Cardinality(memberships) < MaxMemberships
           /\ memberships' = memberships \cup {row}
           /\ UNCHANGED <<is_superuser, checked>>

\* a ClubMembership row is deleted
RevokeMembership ==
    /\ checked = NoCheck
    /\ \E row \in memberships :
           /\ memberships' = memberships \ {row}
           /\ UNCHANGED <<is_superuser, checked>>

\* a user's is_superuser flag is set or cleared
SetSuperuser ==
    /\ checked = NoCheck
    /\ \E u \in Users, b \in BOOLEAN :
           /\ is_superuser[u] # b
           /\ is_superuser' = [is_superuser EXCEPT ![u] = b]
           /\ UNCHANGED <<memberships, checked>>

\* the framework calls has_object_permission once for the request it is
\* serving and keeps the outcome until it has responded
Record(perm, request, obj, granted) ==
    /\ checked' = [perm |-> perm, request |-> request, obj |-> obj,
                   granted |-> granted]
    /\ UNCHANGED <<is_superuser, memberships>>

CheckPost ==
    /\ checked = NoCheck
    /\ \E request \in Requests, obj \in Posts :
           Record("IsRepOrReadOnlyPost", request, obj,
                  IsRepOrReadOnlyPost(request, obj))

CheckConversation ==
    /\ checked = NoCheck
    /\ \E request \in Requests, obj \in Conversations :
           Record("IsClubMemberReadOnlyConversation", request, obj,
                  IsClubMemberReadOnlyConversation(request, obj))

CheckUser ==
    /\ checked = NoCheck
    /\ \E request \in Requests, obj \in UserObjs :
           Record("IsSelfOrReadOnlyUser", request, obj,
                  IsSelfOrReadOnlyUser(request, obj))

CheckClub ==
    /\ checked = NoCheck
    /\ \E request \in Requests, obj \in ClubObjs :
           Record("IsSecyOrRepOrReadOnlyClub", request, obj,
                  IsSecyOrRepOrReadOnlyClub(request, obj))

CheckClubRole ==
    /\ checked = NoCheck
    /\ \E request \in Requests, obj \in ClubRoleObjs :
           Record("IsRepClubRole", request, obj,
                  IsRepClubRole(request, obj))

\* the membership object of a request is a row of the table
CheckClubMembership ==
    /\ checked = NoCheck
    /\ \E request \in Requests, row \in memberships :
           LET obj == [kind |-> "ClubMembership", user |-> row.user,
                       club_role |-> row.club_role]
           IN Record("IsRepClubMembership", request, obj,
                     IsRepClubMembership(request, obj))

CheckFeedback ==
    /\ checked = NoCheck
    /\ \E request \in Requests, obj \in Feedbacks :
           Record("IsSecyOrRepOrAuthorFeedback", request, obj,
                  IsSecyOrRepOrAuthorFeedback(request, obj))

CheckFeedbackReply ==
    /\ checked = NoCheck
    /\ \E request \in Requests, obj \in FeedbackReplies :
           Record("IsSecyOrRepOrAuthorFeedbackReply", request, obj,
                  IsSecyOrRepOrAuthorFeedbackReply(request, obj))

CheckProject ==
    /\ checked = NoCheck
    /\ \E request \in Requests, obj \in Projects :
           Record("IsRepOrSecyAndClubMemberReadOnlyProject", request, obj,
                  IsRepOrSecyAndClubMemberReadOnlyProject(request, obj))

\* the request/response cycle ends: 200 when granted, 403 when denied
Respond ==
    /\ checked # NoCheck
    /\ checked' = NoCheck
    /\ UNCHANGED <<is_superuser, memberships>>

Next ==
    \/ GrantMembership
    \/ RevokeMembership
    \/ SetSuperuser
    \/ CheckPost
    \/ CheckConversation
    \/ CheckUser
    \/ CheckClub
    \/ CheckClubRole
    \/ CheckClubMembership
    \/ CheckFeedback
    \/ CheckFeedbackReply
    \/ CheckProject
    \/ Respond

Spec == Init /\ [][Next]_vars

TypeOK ==
    /\ is_superuser \in [Users -> BOOLEAN]
    /\ memberships \subseteq ClubMembership
    /\ Cardinality(memberships) <= MaxMemberships
    /\ checked.perm # "none" => checked.granted \in BOOLEAN

(* ------------------- vocabulary of the properties ---------------------- *)

\* u holds a membership whose role has privilege 'REP' in club c
HoldsRep(u, c) ==
    [user |-> u, club_role |-> [club |-> c, privilege |-> "REP"]] \in memberships

\* u holds a membership of some privilege in club c
IsMember(u, c) ==
    \E p \in PRIVILEGES :
        [user |-> u, club_role |-> [club |-> c, privilege |-> p]] \in memberships

Served == checked.perm # "none"

ServedBy(perms) == checked.perm \in perms

Safe == checked.request.method \in SAFE_METHODS

Requester == checked.request.user

\* the clubs that own an object
OwnerClubs(obj) ==
    CASE obj.kind \in {"Post", "Conversation"} -> {obj.channel.club}
      [] obj.kind = "Club" -> {obj.id}
      [] obj.kind = "ClubRole" -> {obj.club}
      [] obj.kind = "ClubMembership" -> {obj.club_role.club}
      [] obj.kind = "Feedback" -> {obj.club}
      [] obj.kind = "FeedbackReply" -> {obj.parent.club}
      [] obj.kind = "Project" -> obj.clubs
      [] OTHER -> {}

(* ----------------------------- properties ------------------------------ *)

\* C1: whenever an unsafe request on a club, club role, club membership,
\* post, conversation, feedback, feedback reply or project is granted, the
\* requester holds a 'REP' membership in a club owning the object, or the
\* object is a club and the requester is a secretary.
C1_WriteNeedsRepOrSecy ==
    (Served /\ ~ServedBy({"IsSelfOrReadOnlyUser"}) /\ ~Safe /\ checked.granted)
        => \/ \E c \in OwnerClubs(checked.obj) : HoldsRep(Requester, c)
           \/ checked.obj.kind = "Club" /\ is_superuser[Requester]

\* a secretary who is no representative of the club has a DELETE on it granted
C1_Witness ==
    /\ ServedBy({"IsSecyOrRepOrReadOnlyClub"})
    /\ checked.request.method = "DELETE"
    /\ checked.granted
    /\ ~HoldsRep(Requester, checked.obj.id)
    /\ is_superuser[Requester]

\* C2: on a feedback or a feedback reply every unsafe request is denied, and
\* a safe request is granted exactly when the requester is the author of the
\* (parent) feedback, a secretary, or a 'REP' of the (parent) feedback's club.
C2_FeedbackReadOnlyToFew ==
    ServedBy({"IsSecyOrRepOrAuthorFeedback", "IsSecyOrRepOrAuthorFeedbackReply"})
        => LET fb == IF checked.obj.kind = "Feedback"
                     THEN checked.obj ELSE checked.obj.parent
           IN checked.granted <=>
                  /\ Safe
                  /\ \/ fb.author = Requester
                     \/ is_superuser[Requester]
                     \/ HoldsRep(Requester, fb.club)

\* the author of the parent feedback, who is also a secretary and a 'REP' of
\* its club, is denied a write to a reply
C2_Witness ==
    /\ ServedBy({"IsSecyOrRepOrAuthorFeedbackReply"})
    /\ ~Safe
    /\ checked.obj.parent.author = Requester
    /\ is_superuser[Requester]
    /\ HoldsRep(Requester, checked.obj.parent.club)
    /\ ~checked.granted

\* C3: on a project a safe request is granted exactly when the requester is a
\* secretary or a member, of any privilege, of one of the project's clubs; an
\* unsafe request exactly when the requester is a 'REP' of one of them.
C3_ProjectReadMembersWriteRep ==
    ServedBy({"IsRepOrSecyAndClubMemberReadOnlyProject"})
        => checked.granted <=>
              IF Safe
              THEN \/ is_superuser[Requester]
                   \/ \E c \in checked.obj.clubs : IsMember(Requester, c)
              ELSE \E c \in checked.obj.clubs : HoldsRep(Requester, c)

\* a secretary who is an ordinary member of one of the project's clubs is
\* denied a write
C3_Witness ==
    /\ ServedBy({"IsRepOrSecyAndClubMemberReadOnlyProject"})
    /\ ~Safe
    /\ is_superuser[Requester]
    /\ \E c \in checked.obj.clubs : IsMember(Requester, c)
    /\ ~checked.granted

\* C4: a safe request on a post, a user or a club is granted to every user,
\* whatever the memberships and superuser flags.
C4_ReadOpen ==
    (ServedBy({"IsRepOrReadOnlyPost", "IsSelfOrReadOnlyUser",
               "IsSecyOrRepOrReadOnlyClub"}) /\ Safe)
        => checked.granted

\* a user without any membership who is no secretary reads another user
C4_Witness ==
    /\ ServedBy({"IsSelfOrReadOnlyUser"})
    /\ Safe
    /\ checked.obj.id # Requester
    /\ ~is_superuser[Requester]
    /\ \A m \in memberships : m.user # Requester
    /\ memberships # {}
    /\ checked.granted

\* C5: on a conversation a safe request is granted exactly when the requester
\* is a member, of any privilege, of the club of its channel, and every unsafe
\* request is denied.
C5_ConversationMembersReadOnly ==
    ServedBy({"IsClubMemberReadOnlyConversation"})
        => checked.granted <=>
              (Safe /\ IsMember(Requester, checked.obj.channel.club))

\* a secretary who is a member of another club only is denied a read
C5_Witness ==
    /\ ServedBy({"IsClubMemberReadOnlyConversation"})
    /\ Safe
    /\ is_superuser[Requester]
    /\ ~IsMember(Requester, checked.obj.channel.club)
    /\ \E c \in Clubs : IsMember(Requester, c)
    /\ ~checked.granted

\* C6: on a club role and on a club membership a request of any method is
\* granted exactly when the requester is a 'REP' of the club of the role (of
\* the membership's role).
C6_RoleAndMembershipRepOnly ==
    ServedBy({"IsRepClubRole", "IsRepClubMembership"})
        => checked.granted <=>
              \E c \in OwnerClubs(checked.obj) : HoldsRep(Requester, c)

\* an ordinary member who is a secretary is denied a read of their own
\* membership
C6_Witness ==
    /\ ServedBy({"IsRepClubMembership"})
    /\ Safe
    /\ checked.obj.user = Requester
    /\ checked.obj.club_role.privilege = "MEM"
    /\ is_superuser[Requester]
    /\ ~checked.granted

\* C7: on a club a DELETE is granted exactly to a secretary, and any other
\* unsafe request exactly to a secretary or a 'REP' of that club.
C7_ClubDeleteSecyOnly ==
    (ServedBy({"IsSecyOrRepOrReadOnlyClub"}) /\ ~Safe)
        => checked.granted <=>
              IF checked.request.method = "DELETE"
              THEN is_superuser[Requester]
              ELSE is_superuser[Requester] \/ HoldsRep(Requester, checked.obj.id)

\* a 'REP' of the club who is no secretary is denied its DELETE
C7_Witness ==
    /\ ServedBy({"IsSecyOrRepOrReadOnlyClub"})
    /\ checked.request.method = "DELETE"
    /\ HoldsRep(Requester, checked.obj.id)
    /\ ~is_superuser[Requester]
    /\ ~checked.granted

\* C8: in every step, an unsafe request on a post that is then served is
\* granted exactly when the requester then holds a 'REP' membership in the
\* club of the post's channel, and once a step has taken a user's 'REP'
\* membership in a club away, every unsafe request of that user on a post of
\* that club is denied.
C8_PostWriteFollowsRep ==
    [][ \A u \in Users, c \in Clubs :
          /\ (/\ checked'.perm = "IsRepOrReadOnlyPost"
              /\ checked'.request.method \notin SAFE_METHODS
              /\ checked'.request.user = u
              /\ checked'.obj.channel.club = c)
                 => (checked'.granted <=> HoldsRep(u, c)')
          /\ (HoldsRep(u, c) /\ ~HoldsRep(u, c)')
                 => \A method \in METHODS \ SAFE_METHODS :
                       ~IsRepOrReadOnlyPost(
                           [user |-> u, method |-> method],
                           [kind |-> "Post", channel |-> [club |-> c]])'
      ]_vars

\* a secretary who is a 'REP' of another club and an ordinary member of the
\* post's club is denied a write to the post
C8_Witness ==
    /\ ServedBy({"IsRepOrReadOnlyPost"})
    /\ ~Safe
    /\ is_superuser[Requester]
    /\ IsMember(Requester, checked.obj.channel.club)
    /\ \E c \in Clubs \ {checked.obj.channel.club} : HoldsRep(Requester, c)
    /\ ~checked.granted

====
